---- MODULE Spec2Model ----
(***************************************************************************)
(* Model of dairy_temperature_app.py: the SQLite store (users, products,   *)
(* rooms, sensor_data, audit_log), the per-browser session state, the      *)
(* simulated room sensor, the recommendation and alert helpers and the     *)
(* Streamlit pages that drive them.                                        *)
(*                                                                         *)
(* REAL columns are kept as fixed-point integers, Unit steps per degree    *)
(* (or per percent of humidity).  Python None and SQL NULL are the value   *)
(* NULL.  Wall-clock timestamps (last_updated, timestamp columns) are not  *)
(* kept; the energy_saving toggle only changes a caption and is left out.  *)
(***************************************************************************)
EXTENDS Integers, Sequences, FiniteSets, TLC

\* users .. audit_log are the tables of the store, sessions the
\* st.session_state and script position of each browser, call the helper call
\* the last step made with what it returned (NoCall when it made none).
VARIABLES users, products, rooms, sensor_data, audit_log, sessions, call

vars == <<users, products, rooms, sensor_data, audit_log, sessions, call>>

(***************************************************************************)
(* Representation                                                          *)
(***************************************************************************)
Unit == 10
NULL == -99999
Timestamp == 1

\* Python truthiness of a number or None: None and 0 are false.
Truthy(x) == x # NULL /\ x # 0

Max(a, b) == IF a >= b THEN a ELSE b
Min(a, b) == IF a <= b THEN a ELSE b
Abs(x) == IF x < 0 THEN -x ELSE x

(***************************************************************************)
(* Program constants                                                       *)
(***************************************************************************)
HotThreshold == 30
ColdThreshold == 10
HumidityTolerance == 10
TempDelta == 2
HumidityDelta == 10
SliderMin == -30
SliderMax == 30
DefaultRoomId == 1

(***************************************************************************)
(* Bounds of the model                                                     *)
(***************************************************************************)
\* Rows that sensor_data and audit_log hold together, at most.
MaxRecords == 10

RecordsLeft(log, data, n) == Len(log) + Len(data) + n <= MaxRecords

Sessions == {1, 2}

\* Draws of (random.uniform(-0.2, 0.2), random.uniform(-1, 1)).
Perturbations == {<<-TempDelta, -HumidityDelta>>, <<TempDelta, HumidityDelta>>}

\* Draws of random.uniform(15, 45) in get_weather.
WeatherTemps == {35 * Unit}

(***************************************************************************)
(* Tables as created and seeded by init_db                                 *)
(***************************************************************************)
Product(id, name, min_temp, max_temp, humidity, shelf_life) ==
    [id |-> id, name |-> name, min_temp |-> min_temp, max_temp |-> max_temp,
     humidity |-> humidity, shelf_life |-> shelf_life]

\* What fetchone() gives for "no row", and what a LEFT JOIN fills in.
NoProduct == Product(NULL, "", NULL, NULL, NULL, NULL)

default_products ==
    << Product(1, "Milk", 2 * Unit, 4 * Unit, 70 * Unit, 5),
       Product(2, "Curd", 2 * Unit, 4 * Unit, 75 * Unit, 7),
       Product(3, "Butter", -15 * Unit, -10 * Unit, 80 * Unit, 90),
       Product(4, "Cheese", 1 * Unit, 4 * Unit, 85 * Unit, 30),
       Product(5, "Ice Cream", -25 * Unit, -18 * Unit, 70 * Unit, 365) >>

Room(name, current_temp, target_temp, humidity, current_product_id) ==
    [name |-> name, current_temp |-> current_temp, target_temp |-> target_temp,
     humidity |-> humidity, current_product_id |-> current_product_id]

\* rooms is keyed by the AUTOINCREMENT id.
default_rooms ==
    (1 :> Room("Room 1", 4 * Unit, 4 * Unit, 70 * Unit, NULL)) @@
    (2 :> Room("Room 2", 4 * Unit, 4 * Unit, 70 * Unit, NULL)) @@
    (3 :> Room("Freezer 1", -18 * Unit, -18 * Unit, 70 * Unit, NULL))

\* pbkdf2_sha256.hash keeps the password recoverable only by verify.
Hash(password) == <<"pbkdf2_sha256", password>>
Verify(password, password_hash) == password_hash = Hash(password)

User(id, username, password_hash, role, approved) ==
    [id |-> id, username |-> username, password_hash |-> password_hash,
     role |-> role, approved |-> approved]

NoUser == User(NULL, "", Hash(""), "", 0)

\* The rows, and the largest id ever given out (AUTOINCREMENT never reuses
\* the id of a deleted row).
default_users ==
    [rows |-> << User(1, "vs27", Hash("sujal@2794"), "admin", 1) >>, seq |-> 1]

(***************************************************************************)
(* Queries                                                                 *)
(***************************************************************************)
ProductIds(prods) == {prods[i].id : i \in 1..Len(prods)}
ProductNames(prods) == {prods[i].name : i \in 1..Len(prods)}

\* Variant: the columns of a missing product read as 0 instead of NULL.
LeftJoinProduct_ZeroFill(prods, pid) ==
    LET m == {i \in 1..Len(prods) : prods[i].id = pid}
    IN  IF m = {} THEN Product(NULL, "", 0, 0, 0, 0) ELSE prods[CHOOSE i \in m : TRUE]

\* products p ... ON r.current_product_id = p.id of a LEFT JOIN: the
\* matching row, or all NULL when nothing matches (NULL matches nothing).
LeftJoinProduct(prods, pid) ==
    LET m == {i \in 1..Len(prods) : prods[i].id = pid}
    IN  IF m = {} THEN NoProduct ELSE prods[CHOOSE i \in m : TRUE]

get_product_by_name(prods, name) ==
    LET m == {i \in 1..Len(prods) : prods[i].name = name}
    IN  IF m = {} THEN NoProduct ELSE prods[CHOOSE i \in m : TRUE]

(***************************************************************************)
(* Database helper functions                                               *)
(***************************************************************************)
get_user(usrs, username) ==
    LET m == {i \in 1..Len(usrs.rows) : usrs.rows[i].username = username}
    IN  IF m = {} THEN NoUser ELSE usrs.rows[CHOOSE i \in m : TRUE]

verify_password(usrs, username, password) ==
    LET user == get_user(usrs, username)
    IN  IF user # NoUser /\ Verify(password, user.password_hash) THEN user ELSE NoUser

\* ok is the return value; username is UNIQUE, approved defaults to 0.
register_user(usrs, username, password, role) ==
    IF get_user(usrs, username) # NoUser
    THEN [ok |-> FALSE, users |-> usrs]
    ELSE [ok |-> TRUE,
          users |-> [rows |-> Append(usrs.rows,
                                     User(usrs.seq + 1, username, Hash(password), role, 0)),
                     seq |-> usrs.seq + 1]]

get_pending_users(usrs) ==
    {usrs.rows[i].id : i \in {j \in 1..Len(usrs.rows) : usrs.rows[j].approved = 0}}

approve_user(usrs, user_id) ==
    [usrs EXCEPT !.rows = [i \in 1..Len(usrs.rows) |->
                              IF usrs.rows[i].id = user_id
                              THEN [usrs.rows[i] EXCEPT !.approved = 1]
                              ELSE usrs.rows[i]]]

reject_user(usrs, user_id) ==
    LET Keep(u) == u.id # user_id
    IN  [usrs EXCEPT !.rows = SelectSeq(usrs.rows, Keep)]

NextProductId(prods) ==
    IF Len(prods) = 0 THEN 1
    ELSE 1 + (CHOOSE m \in ProductIds(prods) : \A k \in ProductIds(prods) : k <= m)

\* Variant: INSERT OR REPLACE, the row of the same name is overwritten.
add_product_Replace(prods, name, min_temp, max_temp, humidity, shelf_life) ==
    IF name \in ProductNames(prods)
    THEN [ok |-> TRUE,
          products |-> [i \in 1..Len(prods) |->
                          IF prods[i].name = name
                          THEN Product(prods[i].id, name, min_temp, max_temp,
                                       humidity, shelf_life)
                          ELSE prods[i]]]
    ELSE [ok |-> TRUE,
          products |-> Append(prods, Product(Len(prods) + 1, name, min_temp,
                                             max_temp, humidity, shelf_life))]

\* ok is the return value; name is UNIQUE (IntegrityError gives False).
add_product(prods, name, min_temp, max_temp, humidity, shelf_life) ==
    IF name \in ProductNames(prods)
    THEN [ok |-> FALSE, products |-> prods]
    ELSE [ok |-> TRUE,
          products |-> Append(prods, Product(NextProductId(prods), name, min_temp,
                                             max_temp, humidity, shelf_life))]

\* Each UPDATE runs only for an argument that is not None.
update_room(rms, room_id, target_temp, current_product_id) ==
    [r \in DOMAIN rms |->
        IF r # room_id THEN rms[r]
        ELSE [rms[r] EXCEPT
                !.target_temp = IF target_temp # NULL THEN target_temp ELSE @,
                !.current_product_id =
                    IF current_product_id # NULL THEN current_product_id ELSE @]]

log_action(log, user_id, action) ==
    Append(log, [user_id |-> user_id, action |-> action])

(***************************************************************************)
(* recommend_temperature                                                   *)
(***************************************************************************)
\* (a + b)/2; the ranges used are whole degrees, so the sum is even.
Midpoint(product) == (product.min_temp + product.max_temp) \div 2

\* Variant: the hot band starts at the threshold itself (>= for >).
recommend_temperature_HotInclusive(product, external_temp) ==
    IF product = NoProduct
    THEN NULL
    ELSE IF external_temp >= HotThreshold * Unit
         THEN Max(product.min_temp, Midpoint(product) - 1 * Unit)
         ELSE IF external_temp < ColdThreshold * Unit
              THEN Min(product.max_temp, Midpoint(product) + 1 * Unit)
              ELSE Midpoint(product)

\* Variant: the hot and cold bands are not clamped to the range.
recommend_temperature_Unclamped(product, external_temp) ==
    IF product = NoProduct
    THEN NULL
    ELSE IF external_temp > HotThreshold * Unit
         THEN Midpoint(product) - 1 * Unit
         ELSE IF external_temp < ColdThreshold * Unit
              THEN Midpoint(product) + 1 * Unit
              ELSE Midpoint(product)

recommend_temperature(product, external_temp) ==
    IF product = NoProduct
    THEN NULL
    ELSE IF external_temp > HotThreshold * Unit
         THEN Max(product.min_temp, Midpoint(product) - 1 * Unit)
         ELSE IF external_temp < ColdThreshold * Unit
              THEN Min(product.max_temp, Midpoint(product) + 1 * Unit)
              ELSE Midpoint(product)

(***************************************************************************)
(* check_for_alerts                                                        *)
(***************************************************************************)
LowAlert(current_temp, min_temp) == <<"Temperature too low!", current_temp, min_temp>>
HighAlert(current_temp, max_temp) == <<"Temperature too high!", current_temp, max_temp>>
HumidityAlert(current_humidity, ideal) == <<"Humidity deviation!", current_humidity, ideal>>
OverrideAlert == <<"Manual override active - automated controls disabled">>

\* Variant: the high-temperature test is an elif of the low-temperature test
\* and the override notice is put first.
check_for_alerts_Reordered(rms, prods, current_room_id, manual_override) ==
    LET found == current_room_id \in DOMAIN rms
        r == rms[current_room_id]
        p == LeftJoinProduct(prods, r.current_product_id)
        low == IF found /\ p.min_temp # NULL /\ r.current_temp < p.min_temp
               THEN <<LowAlert(r.current_temp, p.min_temp)>> ELSE <<>>
        high == IF found /\ low = <<>> /\ p.max_temp # NULL /\ r.current_temp > p.max_temp
                THEN <<HighAlert(r.current_temp, p.max_temp)>> ELSE <<>>
        hum == IF found /\ p.humidity # NULL
                  /\ Abs(r.humidity - p.humidity) > HumidityTolerance * Unit
               THEN <<HumidityAlert(r.humidity, p.humidity)>> ELSE <<>>
        ovr == IF manual_override THEN <<OverrideAlert>> ELSE <<>>
    IN  ovr \o low \o high \o hum

check_for_alerts(rms, prods, current_room_id, manual_override) ==
    LET found == current_room_id \in DOMAIN rms
        r == rms[current_room_id]
        p == LeftJoinProduct(prods, r.current_product_id)
        low == IF found /\ p.min_temp # NULL /\ r.current_temp < p.min_temp
               THEN <<LowAlert(r.current_temp, p.min_temp)>> ELSE <<>>
        high == IF found /\ p.max_temp # NULL /\ r.current_temp > p.max_temp
                THEN <<HighAlert(r.current_temp, p.max_temp)>> ELSE <<>>
        hum == IF found /\ p.humidity # NULL
                  /\ Abs(r.humidity - p.humidity) > HumidityTolerance * Unit
               THEN <<HumidityAlert(r.humidity, p.humidity)>> ELSE <<>>
        ovr == IF manual_override THEN <<OverrideAlert>> ELSE <<>>
    IN  low \o high \o hum \o ovr

(***************************************************************************)
(* RoomSensor.update_sensor_data                                           *)
(***************************************************************************)
\* Variant: a missing room reads as a default row instead of "no row".
SensorSelect_Fabricate(rms, room_id) ==
    IF room_id \in DOMAIN rms
    THEN <<rms[room_id].current_temp, rms[room_id].humidity>>
    ELSE <<4 * Unit, 70 * Unit>>

\* SELECT current_temp, humidity FROM rooms WHERE id = ?; <<>> is "no row".
SensorSelect(rms, room_id) ==
    IF room_id \in DOMAIN rms
    THEN <<rms[room_id].current_temp, rms[room_id].humidity>>
    ELSE <<>>

\* The new reading computed from the row that was read.
SensorReading(room, d) == <<room[1] + d[1], room[2] + d[2]>>

\* Variant: the UPDATE has no WHERE clause.
SensorUpdateRooms_NoWhere(rms, room_id, reading) ==
    [r \in DOMAIN rms |->
        [rms[r] EXCEPT !.current_temp = reading[1], !.humidity = reading[2]]]

\* UPDATE rooms SET current_temp = ?, humidity = ? WHERE id = ?
SensorUpdateRooms(rms, room_id, reading) ==
    [r \in DOMAIN rms |->
        IF r = room_id
        THEN [rms[r] EXCEPT !.current_temp = reading[1], !.humidity = reading[2]]
        ELSE rms[r]]

\* Variant: the history row takes the reading of the first room.
SensorInsert_WrongRoom(data, room_id, reading) ==
    Append(data, [room_id |-> DefaultRoomId, temperature |-> reading[1],
                  humidity |-> reading[2]])

\* INSERT INTO sensor_data (room_id, temperature, humidity)
SensorInsert(data, room_id, reading) ==
    Append(data, [room_id |-> room_id, temperature |-> reading[1],
                  humidity |-> reading[2]])

SensorReturn(room, d) ==
    IF room # <<>>
    THEN <<SensorReading(room, d)[1], SensorReading(room, d)[2], Timestamp>>
    ELSE <<NULL, NULL, NULL>>

(***************************************************************************)
(* Session state                                                           *)
(***************************************************************************)
\* st.session_state after the block at "Initialize session state", before
\* RoomSensor(1) has sampled.
NewSession ==
    [pc |-> "start", logged_in |-> FALSE, user_id |-> NULL, user_role |-> "",
     page |-> "Dashboard", current_room_id |-> DefaultRoomId,
     room_sensor |-> DefaultRoomId, room |-> <<>>, weather_data |-> NULL,
     alerts |-> <<>>, manual_override |-> FALSE]

NoCall == [fn |-> ""]

\* The store as init_db creates and seeds it, no session run yet.
InitFresh ==
    /\ users = default_users
    /\ products = default_products
    /\ rooms = default_rooms
    /\ sensor_data = <<>>
    /\ audit_log = <<>>
    /\ sessions = [s \in Sessions |-> NewSession]
    /\ call = NoCall

\* The store is a file that outlives a run: init_db creates only what is
\* missing.  Operation starts from the store and the two browser sessions of
\* a plant in service.  Session 1 started (a sample of room 1), registered
\* "tech" as technician and "view" as viewer, logged in as "vs27" (the
\* dashboard sampled room 1) and approved "tech" on the User Approval page.
\* Session 2 started (a sample of room 1), logged in as "tech" (the dashboard
\* sampled room 1) and set the product of room 1 to Milk on the Temperature
\* Control page.  SpecFresh reaches this state.
InService ==
    /\ users = [rows |-> << User(1, "vs27", Hash("sujal@2794"), "admin", 1),
                            User(2, "tech", Hash("secret"), "technician", 1),
                            User(3, "view", Hash("secret"), "viewer", 0) >>,
                seq |-> 3]
    /\ products = default_products
    /\ rooms = [default_rooms EXCEPT ![1].current_product_id = 1]
    /\ sensor_data =
          LET low == [room_id |-> 1, temperature |-> 4 * Unit - TempDelta,
                      humidity |-> 70 * Unit - HumidityDelta]
              back == [room_id |-> 1, temperature |-> 4 * Unit, humidity |-> 70 * Unit]
          IN  <<low, back, low, back>>
    /\ audit_log = << [user_id |-> 1, action |-> <<"User logged in">>],
                      [user_id |-> 1, action |-> <<"Approved user", 2>>],
                      [user_id |-> 2, action |-> <<"User logged in">>],
                      [user_id |-> 2, action |-> <<"Set product", "Milk", 1>>] >>
    /\ sessions =
          (1 :> [NewSession EXCEPT !.pc = "idle", !.logged_in = TRUE, !.user_id = 1,
                                   !.user_role = "admin", !.page = "User Approval",
                                   !.weather_data = 35 * Unit]) @@
          (2 :> [NewSession EXCEPT !.pc = "idle", !.logged_in = TRUE, !.user_id = 2,
                                   !.user_role = "technician",
                                   !.page = "Temperature Control",
                                   !.weather_data = 35 * Unit])
    /\ call = [fn |-> "select_product", s |-> 2, room_id |-> 1, choice |-> "Milk"]

Init == InService

(***************************************************************************)
(* Inputs of the pages                                                     *)
(***************************************************************************)
\* (username, role) pairs entered on the Register tab, and their password.
Registrations == {<<"tech", "technician">>, <<"view", "viewer">>}
RegisterPassword == "secret"
\* (username, password) pairs entered on the Login tab.
LoginAttempts == {<<"vs27", "sujal@2794">>, <<"tech", "secret">>,
                  <<"view", "secret">>, <<"tech", "sujal@2794">>}

\* Entries picked in the "Select Product" box; "" is its blank entry.
ProductChoices == {"", "Milk", "Cheese", "Lassi"}
\* (name, min_temp, max_temp) typed into the "Add New Product" form; the
\* other fields keep the form's defaults.
NewProductForms ==
    {<<"", 4 * Unit, 6 * Unit>>, <<"Milk", 0, 6 * Unit>>,
     <<"Ghee", 4 * Unit, 6 * Unit>>, <<"Ghee", 6 * Unit, 4 * Unit>>,
     <<"Lassi", 0, 4 * Unit>>}
FormHumidity == 70 * Unit
FormShelfLife == 7
\* Positions of the target temperature slider.
SliderValues == {0}

(***************************************************************************)
(* main_app: sidebar and page routing                                      *)
(***************************************************************************)
\* Variant: every role but admin is offered the technician's pages.
MenuOptions_NoViewer(role) ==
    IF role = "admin"
    THEN {"Dashboard", "User Approval", "System Settings", "Audit Log"}
    ELSE {"Dashboard", "Temperature Control", "Product Management"}

MenuOptions(role) ==
    IF role = "admin"
    THEN {"Dashboard", "User Approval", "System Settings", "Audit Log"}
    ELSE IF role = "technician"
         THEN {"Dashboard", "Temperature Control", "Product Management"}
         ELSE {"Dashboard"}

IsOperator(role) == role \in {"admin", "technician"}

\* room_names.index(current_room_name) raises when the name is not listed.
SidebarRenders(sess, rms) ==
    IsOperator(sess.user_role) =>
        \/ sess.current_room_id \in DOMAIN rms
        \/ \E r \in DOMAIN rms : rms[r].name = "Room 1"

\* The product columns of "rooms r LEFT JOIN products p ... WHERE r.id = ?".
JoinedProduct(rms, prods, room_id) ==
    IF room_id \in DOMAIN rms
    THEN LeftJoinProduct(prods, rms[room_id].current_product_id)
    ELSE NoProduct

\* temperature_control_page calls get_weather when it shows a recommendation
\* and the session holds no weather sample yet.
NeedsWeather(sess, rms, prods) ==
    /\ SidebarRenders(sess, rms)
    /\ sess.page = "Temperature Control"
    /\ ~sess.manual_override
    /\ JoinedProduct(rms, prods, sess.current_room_id).name # ""
    /\ sess.weather_data = NULL

WeatherDraw(needed) == IF needed THEN WeatherTemps ELSE {NULL}

\* The rest of a script run once the sidebar is done: the selected page is
\* rendered.  The dashboard goes on to sample the sensor.
RenderPage(sess, rms, prods, w) ==
    IF ~SidebarRenders(sess, rms)
    THEN [sess EXCEPT !.pc = "idle"]
    ELSE IF sess.page = "Dashboard"
         THEN [sess EXCEPT !.pc = "dash"]
         ELSE IF NeedsWeather(sess, rms, prods)
              THEN [sess EXCEPT !.pc = "idle", !.weather_data = w]
              ELSE [sess EXCEPT !.pc = "idle"]

OnLoginPage(s) == sessions[s].pc = "idle" /\ ~sessions[s].logged_in

InApp(s) ==
    /\ sessions[s].pc = "idle"
    /\ sessions[s].logged_in
    /\ SidebarRenders(sessions[s], rooms)

(***************************************************************************)
(* The sensor's transaction: UPDATE rooms, INSERT INTO sensor_data, commit *)
(***************************************************************************)
RoomsAfterSample(s, d) ==
    IF sessions[s].room # <<>>
    THEN SensorUpdateRooms(rooms, sessions[s].room_sensor,
                           SensorReading(sessions[s].room, d))
    ELSE rooms

CommitSample(s, d) ==
    /\ rooms' = RoomsAfterSample(s, d)
    /\ IF sessions[s].room # <<>>
       THEN /\ RecordsLeft(audit_log, sensor_data, 1)
            /\ sensor_data' = SensorInsert(sensor_data, sessions[s].room_sensor,
                                           SensorReading(sessions[s].room, d))
       ELSE UNCHANGED sensor_data
    /\ call' = [fn |-> "update_sensor_data", s |-> s,
                room_id |-> sessions[s].room_sensor, read |-> sessions[s].room,
                reading |-> SensorReturn(sessions[s].room, d)]

(***************************************************************************)
(* First script run of a session, and the login page                       *)
(***************************************************************************)
\* A browser opens (or reloads) the app: session state is initialised and
\* RoomSensor(1) reads its room.
SessionStart(s) ==
    /\ \/ sessions[s].pc = "start"
       \/ OnLoginPage(s)
    /\ sessions' = [sessions EXCEPT ![s] =
          [NewSession EXCEPT !.pc = "init_sample",
                             !.room = SensorSelect(rooms, DefaultRoomId)]]
    /\ call' = NoCall
    /\ UNCHANGED <<users, products, rooms, sensor_data, audit_log>>

\* RoomSensor(1) writes its first sample; the login page is shown.
InitSample(s, d) ==
    /\ sessions[s].pc = "init_sample"
    /\ CommitSample(s, d)
    /\ sessions' = [sessions EXCEPT ![s].pc = "idle", ![s].room = <<>>]
    /\ UNCHANGED <<users, products, audit_log>>

Register(s, reg) ==
    LET r == register_user(users, reg[1], RegisterPassword, reg[2])
    IN  /\ OnLoginPage(s)
        /\ users' = r.users
        /\ call' = [fn |-> "register_user", s |-> s, ok |-> r.ok]
        /\ UNCHANGED <<products, rooms, sensor_data, audit_log, sessions>>

Login(s, username, password) ==
    LET user == verify_password(users, username, password)
    IN  /\ OnLoginPage(s)
        /\ IF user # NoUser /\ user.approved # 0
           THEN /\ RecordsLeft(audit_log, sensor_data, 1)
                /\ audit_log' = log_action(audit_log, user.id, <<"User logged in">>)
                /\ sessions' = [sessions EXCEPT ![s] =
                      RenderPage([sessions[s] EXCEPT !.logged_in = TRUE,
                                      !.user_id = user.id, !.user_role = user.role,
                                      !.page = "Dashboard"],
                                 rooms, products, NULL)]
                /\ call' = [fn |-> "login", s |-> s, ok |-> TRUE]
           ELSE /\ UNCHANGED <<audit_log, sessions>>
                /\ call' = [fn |-> "login", s |-> s, ok |-> FALSE]
        /\ UNCHANGED <<users, products, rooms, sensor_data>>

(***************************************************************************)
(* Sidebar                                                                 *)
(***************************************************************************)
SelectPage(s, page, w) ==
    /\ InApp(s)
    /\ page \in MenuOptions(sessions[s].user_role) \ {sessions[s].page}
    /\ sessions' = [sessions EXCEPT ![s] =
          RenderPage([sessions[s] EXCEPT !.page = page], rooms, products, w)]
    /\ call' = NoCall
    /\ UNCHANGED <<users, products, rooms, sensor_data, audit_log>>

\* Variant: the selected room changes but the session keeps its old sensor.
SwitchRoom_KeepSensor(s, r) ==
    /\ InApp(s)
    /\ IsOperator(sessions[s].user_role)
    /\ r \in DOMAIN rooms /\ sessions[s].current_room_id \in DOMAIN rooms
    /\ rooms[r].name # rooms[sessions[s].current_room_id].name
    /\ sessions' = [sessions EXCEPT ![s].current_room_id = r,
                                    ![s].room = SensorSelect(rooms, sessions[s].room_sensor),
                                    ![s].pc = "switch_sample"]
    /\ call' = NoCall
    /\ UNCHANGED <<users, products, rooms, sensor_data, audit_log>>

\* "Select Room" changed: the new sensor reads its room.
SwitchRoom(s, r) ==
    /\ InApp(s)
    /\ IsOperator(sessions[s].user_role)
    /\ r \in DOMAIN rooms /\ sessions[s].current_room_id \in DOMAIN rooms
    /\ rooms[r].name # rooms[sessions[s].current_room_id].name
    /\ sessions' = [sessions EXCEPT ![s].current_room_id = r,
                                    ![s].room_sensor = r,
                                    ![s].room = SensorSelect(rooms, r),
                                    ![s].pc = "switch_sample"]
    /\ call' = NoCall
    /\ UNCHANGED <<users, products, rooms, sensor_data, audit_log>>

\* The new sensor writes its sample, the switch is logged, the page follows.
SwitchSample(s, d, w) ==
    /\ sessions[s].pc = "switch_sample"
    /\ CommitSample(s, d)
    /\ RecordsLeft(audit_log, sensor_data, IF sessions[s].room # <<>> THEN 2 ELSE 1)
    /\ audit_log' = log_action(audit_log, sessions[s].user_id,
                               <<"Switched to room", sessions[s].current_room_id>>)
    /\ sessions' = [sessions EXCEPT ![s] =
          RenderPage([sessions[s] EXCEPT !.room = <<>>],
                     RoomsAfterSample(s, d), products, w)]
    /\ UNCHANGED <<users, products>>

ToggleOverride(s, w) ==
    /\ InApp(s)
    /\ IsOperator(sessions[s].user_role)
    /\ sessions' = [sessions EXCEPT ![s] =
          RenderPage([sessions[s] EXCEPT !.manual_override = ~@], rooms, products, w)]
    /\ call' = NoCall
    /\ UNCHANGED <<users, products, rooms, sensor_data, audit_log>>

\* "Refresh Weather Data": get_weather, then the page.
RefreshWeather(s, w) ==
    /\ InApp(s)
    /\ RecordsLeft(audit_log, sensor_data, 1)
    /\ audit_log' = log_action(audit_log, sessions[s].user_id, <<"Refreshed weather data">>)
    /\ sessions' = [sessions EXCEPT ![s] =
          RenderPage([sessions[s] EXCEPT !.weather_data = w], rooms, products, w)]
    /\ call' = [fn |-> "get_weather", s |-> s]
    /\ UNCHANGED <<users, products, rooms, sensor_data>>

Logout(s) ==
    /\ InApp(s)
    /\ RecordsLeft(audit_log, sensor_data, 1)
    /\ audit_log' = log_action(audit_log, sessions[s].user_id, <<"User logged out">>)
    /\ sessions' = [sessions EXCEPT ![s].logged_in = FALSE]
    /\ call' = [fn |-> "logout", s |-> s]
    /\ UNCHANGED <<users, products, rooms, sensor_data>>

\* A script run with no widget changed.
Rerun(s, w) ==
    /\ InApp(s)
    /\ sessions' = [sessions EXCEPT ![s] = RenderPage(sessions[s], rooms, products, w)]
    /\ call' = NoCall
    /\ UNCHANGED <<users, products, rooms, sensor_data, audit_log>>

(***************************************************************************)
(* dashboard_page                                                          *)
(***************************************************************************)
\* room_sensor.update_sensor_data() reads its room.
DashRead(s) ==
    /\ sessions[s].pc = "dash"
    /\ sessions' = [sessions EXCEPT ![s].pc = "dash_sample",
                       ![s].room = SensorSelect(rooms, sessions[s].room_sensor)]
    /\ call' = NoCall
    /\ UNCHANGED <<users, products, rooms, sensor_data, audit_log>>

\* The sample is written; the weather is fetched if the session has none;
\* check_for_alerts stores the alerts of the current room.
DashSample(s, d, w) ==
    /\ sessions[s].pc = "dash_sample"
    /\ CommitSample(s, d)
    /\ sessions' = [sessions EXCEPT
          ![s].pc = "idle",
          ![s].room = <<>>,
          ![s].weather_data = IF @ = NULL THEN w ELSE @,
          ![s].alerts = check_for_alerts(RoomsAfterSample(s, d), products,
                                         sessions[s].current_room_id,
                                         sessions[s].manual_override)]
    /\ UNCHANGED <<users, products, audit_log>>

(***************************************************************************)
(* temperature_control_page                                                *)
(***************************************************************************)
OnPage(s, page) == InApp(s) /\ sessions[s].page = page

\* "Select Product" holds choice in this run.
SelectProduct(s, choice, w) ==
    LET sess == sessions[s]
        rid == sess.current_room_id
        current_product == JoinedProduct(rooms, products, rid).name
        product_id == get_product_by_name(products, choice).id
        assign == choice # "" /\ choice # current_product /\ Truthy(product_id)
        after == IF assign THEN update_room(rooms, rid, NULL, product_id) ELSE rooms
    IN  /\ OnPage(s, "Temperature Control")
        /\ choice \in {""} \cup ProductNames(products)
        /\ rooms' = after
        /\ IF assign
           THEN /\ RecordsLeft(audit_log, sensor_data, 1)
                /\ audit_log' = log_action(audit_log, sess.user_id,
                                           <<"Set product", choice, rid>>)
           ELSE UNCHANGED audit_log
        /\ w \in WeatherDraw(NeedsWeather(sess, after, products))
        /\ sessions' = [sessions EXCEPT ![s] = RenderPage(sess, after, products, w)]
        /\ call' = [fn |-> "select_product", s |-> s, room_id |-> rid, choice |-> choice]
        /\ UNCHANGED <<users, products, sensor_data>>

\* Manual override is on: the slider is at value and "Apply Temperature" is
\* pressed.  The slider only renders a target_temp within its range.
ApplyTemperature(s, value) ==
    LET sess == sessions[s]
        rid == sess.current_room_id
    IN  /\ OnPage(s, "Temperature Control")
        /\ sess.manual_override
        /\ rid \in DOMAIN rooms
        /\ rooms[rid].target_temp >= SliderMin * Unit
        /\ rooms[rid].target_temp <= SliderMax * Unit
        /\ RecordsLeft(audit_log, sensor_data, 1)
        /\ rooms' = update_room(rooms, rid, value, NULL)
        /\ audit_log' = log_action(audit_log, sess.user_id,
                                   <<"Manually set temperature", value, rid>>)
        /\ sessions' = [sessions EXCEPT ![s] = RenderPage(sess, rooms, products, NULL)]
        /\ call' = [fn |-> "apply_temperature", s |-> s, room_id |-> rid, value |-> value]
        /\ UNCHANGED <<users, products, sensor_data>>

\* min_temp and max_temp as the page reads them: a missing or falsy value
\* is replaced by the slider's end.
PageRange(p) ==
    Product(0, "", IF Truthy(p.min_temp) THEN p.min_temp ELSE SliderMin * Unit,
                   IF Truthy(p.max_temp) THEN p.max_temp ELSE SliderMax * Unit, 0, 0)

\* Manual override is off and "Apply Recommended Temperature" is pressed.
ApplyRecommended(s) ==
    LET sess == sessions[s]
        rid == sess.current_room_id
        p == JoinedProduct(rooms, products, rid)
        recommended_temp == recommend_temperature(PageRange(p), sess.weather_data)
    IN  /\ OnPage(s, "Temperature Control")
        /\ ~sess.manual_override
        /\ p.name # ""
        /\ sess.weather_data # NULL
        /\ Truthy(recommended_temp)
        /\ RecordsLeft(audit_log, sensor_data, 1)
        /\ rooms' = update_room(rooms, rid, recommended_temp, NULL)
        /\ audit_log' = log_action(audit_log, sess.user_id,
                                   <<"Applied recommended temperature", recommended_temp, rid>>)
        /\ sessions' = [sessions EXCEPT ![s] = RenderPage(sess, rooms, products, NULL)]
        /\ call' = [fn |-> "apply_recommended", s |-> s, room_id |-> rid,
                    value |-> recommended_temp]
        /\ UNCHANGED <<users, products, sensor_data>>

(***************************************************************************)
(* product_management_page                                                 *)
(***************************************************************************)
\* "Add Product" is submitted with name and range.
AddProduct(s, form) ==
    LET name == form[1]
        r == add_product(products, name, form[2], form[3], FormHumidity, FormShelfLife)
        added == name # "" /\ r.ok
    IN  /\ OnPage(s, "Product Management")
        /\ IF added
           THEN /\ RecordsLeft(audit_log, sensor_data, 1)
                /\ products' = r.products
                /\ audit_log' = log_action(audit_log, sessions[s].user_id,
                                           <<"Added new product", name>>)
           ELSE UNCHANGED <<products, audit_log>>
        /\ call' = [fn |-> "add_product", s |-> s, name |-> name,
                    min_temp |-> form[2], max_temp |-> form[3], ok |-> added]
        /\ UNCHANGED <<users, rooms, sensor_data, sessions>>

(***************************************************************************)
(* user_approval_page, system_settings_page, audit_log_page                *)
(***************************************************************************)
Approve(s, user_id) ==
    /\ OnPage(s, "User Approval")
    /\ sessions[s].user_role = "admin"
    /\ user_id \in get_pending_users(users)
    /\ RecordsLeft(audit_log, sensor_data, 1)
    /\ users' = approve_user(users, user_id)
    /\ audit_log' = log_action(audit_log, sessions[s].user_id, <<"Approved user", user_id>>)
    /\ call' = [fn |-> "approve_user", s |-> s, user_id |-> user_id]
    /\ UNCHANGED <<products, rooms, sensor_data, sessions>>

Reject(s, user_id) ==
    /\ OnPage(s, "User Approval")
    /\ sessions[s].user_role = "admin"
    /\ user_id \in get_pending_users(users)
    /\ RecordsLeft(audit_log, sensor_data, 1)
    /\ users' = reject_user(users, user_id)
    /\ audit_log' = log_action(audit_log, sessions[s].user_id, <<"Rejected user", user_id>>)
    /\ call' = [fn |-> "reject_user", s |-> s, user_id |-> user_id]
    /\ UNCHANGED <<products, rooms, sensor_data, sessions>>

\* The buttons of the two admin pages only write an audit record.
AdminButtons(page, log) ==
    IF page = "System Settings"
    THEN {"Created database backup"}
    ELSE IF page = "Audit Log" /\ Len(log) > 0
         THEN {"Cleared audit logs"}
         ELSE {}

AdminButton(s, label) ==
    /\ InApp(s)
    /\ sessions[s].user_role = "admin"
    /\ label \in AdminButtons(sessions[s].page, audit_log)
    /\ RecordsLeft(audit_log, sensor_data, 1)
    /\ audit_log' = log_action(audit_log, sessions[s].user_id, <<label>>)
    /\ call' = [fn |-> "admin_button", s |-> s]
    /\ UNCHANGED <<users, products, rooms, sensor_data, sessions>>

(***************************************************************************)
(* The program: the sessions' script runs against the store                *)
(***************************************************************************)
Next ==
    \E s \in Sessions :
        \/ SessionStart(s)
        \/ \E d \in Perturbations : InitSample(s, d)
        \/ \E reg \in Registrations : Register(s, reg)
        \/ \E a \in LoginAttempts : Login(s, a[1], a[2])
        \/ \E page \in MenuOptions(sessions[s].user_role) :
              \E w \in WeatherDraw(NeedsWeather([sessions[s] EXCEPT !.page = page],
                                                rooms, products)) :
                 SelectPage(s, page, w)
        \/ \E r \in DOMAIN rooms : SwitchRoom(s, r)
        \/ \E d \in Perturbations :
              \E w \in WeatherDraw(NeedsWeather(sessions[s], rooms, products)) :
                 SwitchSample(s, d, w)
        \/ \E w \in WeatherDraw(NeedsWeather([sessions[s] EXCEPT !.manual_override = ~@],
                                             rooms, products)) :
              ToggleOverride(s, w)
        \/ \E w \in WeatherTemps : RefreshWeather(s, w)
        \/ Logout(s)
        \/ \E w \in WeatherDraw(NeedsWeather(sessions[s], rooms, products)) : Rerun(s, w)
        \/ DashRead(s)
        \/ \E d \in Perturbations :
              \E w \in WeatherDraw(sessions[s].weather_data = NULL) : DashSample(s, d, w)
        \/ \E choice \in ProductChoices : \E w \in WeatherTemps \cup {NULL} :
              SelectProduct(s, choice, w)
        \/ \E value \in SliderValues : ApplyTemperature(s, value)
        \/ ApplyRecommended(s)
        \/ \E form \in NewProductForms : AddProduct(s, form)
        \/ \E u \in get_pending_users(users) : Approve(s, u) \/ Reject(s, u)
        \/ \E label \in AdminButtons(sessions[s].page, audit_log) : AdminButton(s, label)

Spec == Init /\ [][Next]_vars

SpecFresh == InitFresh /\ [][Next]_vars

(***************************************************************************)
(* The operator's control steps on a store whose room holds a new product  *)
(***************************************************************************)
\* As InService, but only "tech" registered, and session 2 added the product
\* "Lassi" (0 to 4 degrees) on the Product Management page before setting it
\* as the product of room 1.  SpecFresh reaches this state.
InControl ==
    /\ users = [rows |-> << User(1, "vs27", Hash("sujal@2794"), "admin", 1),
                            User(2, "tech", Hash("secret"), "technician", 1) >>,
                seq |-> 2]
    /\ products = Append(default_products,
                         Product(6, "Lassi", 0, 4 * Unit, FormHumidity, FormShelfLife))
    /\ rooms = [default_rooms EXCEPT ![1].current_product_id = 6]
    /\ sensor_data =
          LET low == [room_id |-> 1, temperature |-> 4 * Unit - TempDelta,
                      humidity |-> 70 * Unit - HumidityDelta]
              back == [room_id |-> 1, temperature |-> 4 * Unit, humidity |-> 70 * Unit]
          IN  <<low, back, low, back>>
    /\ audit_log = << [user_id |-> 1, action |-> <<"User logged in">>],
                      [user_id |-> 1, action |-> <<"Approved user", 2>>],
                      [user_id |-> 2, action |-> <<"User logged in">>],
                      [user_id |-> 2, action |-> <<"Added new product", "Lassi">>],
                      [user_id |-> 2, action |-> <<"Set product", "Lassi", 1>>] >>
    /\ sessions =
          (1 :> [NewSession EXCEPT !.pc = "idle", !.logged_in = TRUE, !.user_id = 1,
                                   !.user_role = "admin", !.page = "User Approval",
                                   !.weather_data = 35 * Unit]) @@
          (2 :> [NewSession EXCEPT !.pc = "idle", !.logged_in = TRUE, !.user_id = 2,
                                   !.user_role = "technician",
                                   !.page = "Temperature Control",
                                   !.weather_data = 35 * Unit])
    /\ call = [fn |-> "select_product", s |-> 2, room_id |-> 1, choice |-> "Lassi"]

\* The sidebar, the dashboard and the Temperature Control page.
NextControl ==
    \E s \in Sessions :
        \/ \E page \in MenuOptions(sessions[s].user_role) :
              \E w \in WeatherDraw(NeedsWeather([sessions[s] EXCEPT !.page = page],
                                                rooms, products)) :
                 SelectPage(s, page, w)
        \/ \E w \in WeatherDraw(NeedsWeather([sessions[s] EXCEPT !.manual_override = ~@],
                                             rooms, products)) :
              ToggleOverride(s, w)
        \/ \E w \in WeatherTemps : RefreshWeather(s, w)
        \/ DashRead(s)
        \/ \E d \in Perturbations :
              \E w \in WeatherDraw(sessions[s].weather_data = NULL) : DashSample(s, d, w)
        \/ \E choice \in ProductChoices : \E w \in WeatherTemps \cup {NULL} :
              SelectProduct(s, choice, w)
        \/ \E value \in SliderValues : ApplyTemperature(s, value)
        \/ ApplyRecommended(s)

SpecControl == InControl /\ [][NextControl]_vars

(***************************************************************************)
(* Sessions of all three roles                                             *)
(***************************************************************************)
\* A store in service with a viewer logged in: session 2 registered "tech"
\* and "view", the admin of session 1 logged in and approved both, then
\* "view" logged in on session 2 and its Dashboard rendered.  No room holds
\* a product yet.
InViewing ==
    /\ users = [rows |-> << User(1, "vs27", Hash("sujal@2794"), "admin", 1),
                            User(2, "tech", Hash("secret"), "technician", 1),
                            User(3, "view", Hash("secret"), "viewer", 1) >>,
                seq |-> 3]
    /\ products = default_products
    /\ rooms = default_rooms
    /\ sensor_data =
          LET low == [room_id |-> 1, temperature |-> 4 * Unit - TempDelta,
                      humidity |-> 70 * Unit - HumidityDelta]
              back == [room_id |-> 1, temperature |-> 4 * Unit, humidity |-> 70 * Unit]
          IN  <<low, back, low, back>>
    /\ audit_log = << [user_id |-> 1, action |-> <<"User logged in">>],
                      [user_id |-> 1, action |-> <<"Approved user", 2>>],
                      [user_id |-> 1, action |-> <<"Approved user", 3>>],
                      [user_id |-> 3, action |-> <<"User logged in">>] >>
    /\ sessions =
          (1 :> [NewSession EXCEPT !.pc = "idle", !.logged_in = TRUE, !.user_id = 1,
                                   !.user_role = "admin", !.page = "User Approval",
                                   !.weather_data = 35 * Unit]) @@
          (2 :> [NewSession EXCEPT !.pc = "idle", !.logged_in = TRUE, !.user_id = 3,
                                   !.user_role = "viewer", !.page = "Dashboard",
                                   !.weather_data = 35 * Unit])
    /\ call = [fn |-> "update_sensor_data", s |-> 2, room_id |-> 1,
               read |-> <<4 * Unit - TempDelta, 70 * Unit - HumidityDelta>>,
               reading |-> <<4 * Unit, 70 * Unit, 1>>]

\* The application from either store: the one with the technician at work
\* or the one with the viewer logged in.
SpecRoles == (InService \/ InViewing) /\ [][Next]_vars

(***************************************************************************)
(* Function-level specification: one call of one helper on drawn inputs    *)
(***************************************************************************)
UnitRanges == {-2 * Unit, 0, 2 * Unit, 4 * Unit}
UnitExternalTemps ==
    {5 * Unit, 10 * Unit - 1, 10 * Unit, 10 * Unit + 1, 20 * Unit,
     30 * Unit - 1, 30 * Unit, 30 * Unit + 1, 35 * Unit}
UnitProducts ==
    {NoProduct} \cup
    {Product(0, "", lo, hi, 0, 0) : lo \in UnitRanges, hi \in UnitRanges}

UnitRoomTemps == {1 * Unit, 2 * Unit, 3 * Unit, 4 * Unit, 5 * Unit}
UnitRoomHumidities == {60 * Unit, 65 * Unit, 70 * Unit, 85 * Unit, 86 * Unit}
\* No product, Milk, Curd, Butter, and an id no product row has.
UnitProductRefs == {NULL, 1, 2, 3, 9}
\* Room 1, Freezer 1, and an id no room row has.
UnitRoomIds == {1, 3, 7}

InitUnit ==
    /\ users = default_users
    /\ products = default_products
    /\ \E t \in UnitRoomTemps, h \in UnitRoomHumidities, p \in UnitProductRefs :
          rooms = [default_rooms EXCEPT
                      ![1] = Room("Room 1", t, 4 * Unit, h, p),
                      ![3] = Room("Freezer 1", -18 * Unit, -18 * Unit, h, p)]
    /\ sensor_data = <<>>
    /\ audit_log = <<>>
    /\ \E rid \in UnitRoomIds, o \in BOOLEAN :
          sessions = [s \in Sessions |->
                        [NewSession EXCEPT !.pc = "idle", !.current_room_id = rid,
                                           !.room_sensor = rid,
                                           !.manual_override = o]]
    /\ call = NoCall

UnitRecommend(product, external_temp) ==
    /\ call = NoCall
    /\ call' = [fn |-> "recommend_temperature", product |-> product,
                external_temp |-> external_temp,
                ret |-> recommend_temperature(product, external_temp)]
    /\ UNCHANGED <<users, products, rooms, sensor_data, audit_log, sessions>>

UnitCheckForAlerts(s) ==
    /\ call = NoCall
    /\ sessions' = [sessions EXCEPT ![s].alerts =
                      check_for_alerts(rooms, products, sessions[s].current_room_id,
                                       sessions[s].manual_override)]
    /\ call' = [fn |-> "check_for_alerts", s |-> s]
    /\ UNCHANGED <<users, products, rooms, sensor_data, audit_log>>

UnitUpdateSensorData(s, d) ==
    LET room_id == sessions[s].room_sensor
        room == SensorSelect(rooms, room_id)
    IN  /\ call = NoCall
        /\ IF room # <<>>
           THEN /\ rooms' = SensorUpdateRooms(rooms, room_id, SensorReading(room, d))
                /\ sensor_data' = SensorInsert(sensor_data, room_id, SensorReading(room, d))
           ELSE UNCHANGED <<rooms, sensor_data>>
        /\ call' = [fn |-> "update_sensor_data", s |-> s, room_id |-> room_id,
                    reading |-> SensorReturn(room, d)]
        /\ UNCHANGED <<users, products, audit_log, sessions>>

\* update_room(room_id, current_product_id=...): the product of a room is set.
UnitUpdateRoom(room_id, current_product_id) ==
    /\ call = NoCall
    /\ rooms' = update_room(rooms, room_id, NULL, current_product_id)
    /\ call' = [fn |-> "update_room", room_id |-> room_id,
                current_product_id |-> current_product_id]
    /\ UNCHANGED <<users, products, sensor_data, audit_log, sessions>>

NextUnit ==
    \/ \E p \in UnitProducts, e \in UnitExternalTemps : UnitRecommend(p, e)
    \/ \E s \in Sessions : UnitCheckForAlerts(s)
    \/ \E s \in Sessions, d \in Perturbations : UnitUpdateSensorData(s, d)
    \/ \E r \in UnitRoomIds, p \in UnitProductRefs : UnitUpdateRoom(r, p)

SpecUnit == InitUnit /\ [][NextUnit]_vars

(***************************************************************************)
(* Properties of the helpers (checked under SpecUnit)                      *)
(***************************************************************************)
RecommendCalled == call.fn = "recommend_temperature"

\* C1: recommend_temperature returns none exactly when no product is given;
\* otherwise, with midpoint = (min_temp + max_temp)/2, it returns
\* max(min_temp, midpoint - 1) when external_temp > 30, min(max_temp,
\* midpoint + 1) when external_temp < 10 and the midpoint otherwise, so 30 and
\* 10 themselves give the midpoint; for range (2,4): 30 -> 3, 10 -> 3,
\* 35 -> 2, 5 -> 4.
C1_RecommendContract ==
    RecommendCalled =>
        LET p == call.product
            e == call.external_temp
            mid == (p.min_temp + p.max_temp) \div 2
            floor == IF mid - 10 > p.min_temp THEN mid - 10 ELSE p.min_temp
            ceiling == IF mid + 10 < p.max_temp THEN mid + 10 ELSE p.max_temp
        IN  /\ (call.ret = NULL) <=> (p = NoProduct)
            /\ p # NoProduct =>
                  /\ e > 300 => call.ret = floor
                  /\ e < 100 => call.ret = ceiling
                  /\ (e >= 100 /\ e <= 300) => call.ret = mid
            /\ (p # NoProduct /\ p.min_temp = 20 /\ p.max_temp = 40) =>
                  /\ e = 300 => call.ret = 30
                  /\ e = 100 => call.ret = 30
                  /\ e = 350 => call.ret = 20
                  /\ e = 50 => call.ret = 40

\* The boundary case of C1: range (2,4) at an external temperature of exactly 30.
C1_Witness ==
    /\ RecommendCalled
    /\ call.product # NoProduct
    /\ call.product.min_temp = 20 /\ call.product.max_temp = 40
    /\ call.external_temp = 300
    /\ call.ret = 30

\* C2: for every range with min_temp <= max_temp and every external
\* temperature the returned value lies within [min_temp, max_temp].
C2_RecommendWithinRange ==
    (RecommendCalled /\ call.product # NoProduct
        /\ call.product.min_temp <= call.product.max_temp) =>
        /\ call.product.min_temp <= call.ret
        /\ call.ret <= call.product.max_temp

\* A range narrower than the bias of one degree, in hot weather: the floor is
\* what is returned.
C2_Witness ==
    /\ RecommendCalled
    /\ call.product # NoProduct
    /\ call.product.min_temp = 20 /\ call.product.max_temp = 20
    /\ call.external_temp > 300
    /\ call.ret = 20

AlertsCalled == call.fn = "check_for_alerts"

\* The four rules of the alert contract for room r with product p, in order.
AlertRules(r, p, override) ==
    << [holds |-> r.current_temp < p.min_temp,
        alert |-> <<"Temperature too low!", r.current_temp, p.min_temp>>],
       [holds |-> r.current_temp > p.max_temp,
        alert |-> <<"Temperature too high!", r.current_temp, p.max_temp>>],
       [holds |-> (r.humidity - p.humidity > 100) \/ (p.humidity - r.humidity > 100),
        alert |-> <<"Humidity deviation!", r.humidity, p.humidity>>],
       [holds |-> override,
        alert |-> <<"Manual override active - automated controls disabled">>] >>

ApplicableAlerts(r, p, override) ==
    LET Holds(rule) == rule.holds
        sel == SelectSeq(AlertRules(r, p, override), Holds)
    IN  [i \in 1..Len(sel) |-> sel[i].alert]

CurrentRoomKnown(s) == sessions[s].current_room_id \in DOMAIN rooms
CurrentProductKnown(s) ==
    /\ CurrentRoomKnown(s)
    /\ \E i \in 1..Len(products) :
          products[i].id = rooms[sessions[s].current_room_id].current_product_id
CurrentProduct(s) ==
    products[CHOOSE i \in 1..Len(products) :
                products[i].id = rooms[sessions[s].current_room_id].current_product_id]

\* C3: the alert list is exactly the subsequence of [low-temperature,
\* high-temperature, humidity-deviation, override-notice] whose conditions
\* hold, in that order; none suppresses another and the override notice, when
\* present, is last.
C3_AlertsInOrder ==
    (AlertsCalled /\ CurrentProductKnown(call.s)) =>
        LET s == call.s
            alerts == sessions[s].alerts
        IN  /\ alerts = ApplicableAlerts(rooms[sessions[s].current_room_id],
                                         CurrentProduct(s),
                                         sessions[s].manual_override)
            /\ sessions[s].manual_override =>
                  /\ Len(alerts) >= 1
                  /\ alerts[Len(alerts)] =
                        <<"Manual override active - automated controls disabled">>

\* The case of the contract's example: temperature 1, range (2,4), humidity 60,
\* ideal 75, override on.
C3_Witness ==
    /\ AlertsCalled
    /\ sessions[call.s].current_room_id = 1
    /\ rooms[1].current_temp = 10 /\ rooms[1].humidity = 600
    /\ rooms[1].current_product_id = 2
    /\ sessions[call.s].manual_override
    /\ sessions[call.s].alerts =
          << <<"Temperature too low!", 10, 20>>,
             <<"Humidity deviation!", 600, 750>>,
             <<"Manual override active - automated controls disabled">> >>

\* C4: when the current room has no product, or a product reference that no
\* product row has, and manual_override is off, the alert list is empty for
\* every reading, and the read yields a list rather than failing.
C4_NoProductNoAlerts ==
    (AlertsCalled /\ CurrentRoomKnown(call.s) /\ ~CurrentProductKnown(call.s)
        /\ ~sessions[call.s].manual_override) =>
        sessions[call.s].alerts = <<>>

\* A room whose product reference dangles, read at 5 degrees.
C4_Witness ==
    /\ AlertsCalled
    /\ sessions[call.s].current_room_id = 1
    /\ rooms[1].current_product_id = 9
    /\ rooms[1].current_temp = 50
    /\ ~sessions[call.s].manual_override
    /\ sessions[call.s].alerts = <<>>

\* C6: sampling a room id that has no row returns (None, None, None), appends
\* no SensorSample and leaves every room record unchanged.
C6_SampleMissingRoom ==
    [][(call'.fn = "update_sensor_data" /\ call'.room_id \notin DOMAIN rooms) =>
          /\ call'.reading = <<NULL, NULL, NULL>>
          /\ sensor_data' = sensor_data
          /\ rooms' = rooms]_vars

\* A sensor bound to a room id that has no row has been sampled.
C6_Witness ==
    /\ call.fn = "update_sensor_data"
    /\ call.room_id \notin DOMAIN rooms
    /\ sessions[call.s].room_sensor = call.room_id
    /\ call.reading = <<NULL, NULL, NULL>>
    /\ sensor_data = <<>>

(***************************************************************************)
(* Properties of the store (checked under Spec)                            *)
(***************************************************************************)
SamplesOf(r) == {i \in 1..Len(sensor_data) : sensor_data[i].room_id = r}
LastSampleOf(r) == sensor_data[CHOOSE i \in SamplesOf(r) : \A j \in SamplesOf(r) : j <= i]

\* C5: in every reachable state, whatever the sessions did and however their
\* steps interleaved, each room's current_temp and humidity are those of the
\* most recently appended SensorSample of that room, or the seed values when
\* the room has no sample.
C5_ReadingIsLastSample ==
    \A r \in DOMAIN rooms :
        IF SamplesOf(r) = {}
        THEN /\ rooms[r].current_temp = default_rooms[r].current_temp
             /\ rooms[r].humidity = default_rooms[r].humidity
        ELSE /\ rooms[r].current_temp = LastSampleOf(r).temperature
             /\ rooms[r].humidity = LastSampleOf(r).humidity

\* Two sessions sampled the same room from the same reading: the two newest
\* samples are equal, which two samples taken one after the other never are.
C5_Witness ==
    /\ Len(sensor_data) >= 2
    /\ LET n == Len(sensor_data)
       IN  /\ sensor_data[n].room_id = sensor_data[n - 1].room_id
           /\ sensor_data[n].temperature = sensor_data[n - 1].temperature
           /\ sensor_data[n].humidity = sensor_data[n - 1].humidity
           /\ rooms[sensor_data[n].room_id].current_temp = sensor_data[n].temperature

\* C7: a sample call changes only the sampled room's current_temp and
\* humidity and appends exactly one SensorSample; products, the other rooms,
\* and the sampled room's target_temp and product assignment stay as they
\* are; the new reading is within 0.2 (humidity 1.0) of the reading the call
\* took, so a room that was sampled n times is within n x 0.2 (n x 1.0) of
\* its seed values.
C7_SampleFrameAndDrift ==
    /\ [][sensor_data' # sensor_data =>
            LET rid == call'.room_id
                read == call'.read
                n == Len(sensor_data)
            IN  /\ call'.fn = "update_sensor_data"
                /\ Len(sensor_data') = n + 1
                /\ SubSeq(sensor_data', 1, n) = sensor_data
                /\ sensor_data'[n + 1].room_id = rid
                /\ products' = products
                /\ DOMAIN rooms' = DOMAIN rooms
                /\ \A r \in DOMAIN rooms : r # rid => rooms'[r] = rooms[r]
                /\ rooms'[rid].name = rooms[rid].name
                /\ rooms'[rid].target_temp = rooms[rid].target_temp
                /\ rooms'[rid].current_product_id = rooms[rid].current_product_id
                /\ rooms'[rid].current_temp - read[1] <= TempDelta
                /\ read[1] - rooms'[rid].current_temp <= TempDelta
                /\ rooms'[rid].humidity - read[2] <= HumidityDelta
                /\ read[2] - rooms'[rid].humidity <= HumidityDelta]_vars
    /\ [](\A r \in DOMAIN rooms :
            LET n == Cardinality(SamplesOf(r))
            IN  /\ rooms[r].current_temp - default_rooms[r].current_temp <= TempDelta * n
                /\ default_rooms[r].current_temp - rooms[r].current_temp <= TempDelta * n
                /\ rooms[r].humidity - default_rooms[r].humidity <= HumidityDelta * n
                /\ default_rooms[r].humidity - rooms[r].humidity <= HumidityDelta * n)

\* Two samples in a row drifted the same way: room 1 is 0.4 above its seed
\* while a product is assigned to it and its target is untouched.
C7_Witness ==
    /\ call.fn = "update_sensor_data"
    /\ call.room_id = 1
    /\ rooms[1].current_temp = 4 * Unit + 2 * TempDelta
    /\ rooms[1].humidity = 70 * Unit + 2 * HumidityDelta
    /\ rooms[1].current_product_id = 1
    /\ rooms[1].target_temp = 4 * Unit

\* C8: add_product with a name the catalog already has returns a failure,
\* adds no record and leaves the existing product as it is; product names are
\* pairwise distinct in every reachable state.
C8_DuplicateNameRejected ==
    /\ [](\A i, j \in 1..Len(products) :
            products[i].name = products[j].name => i = j)
    /\ [][(call' # call /\ call'.fn = "add_product"
             /\ \E i \in 1..Len(products) : products[i].name = call'.name) =>
            /\ call'.ok = FALSE
            /\ products' = products]_vars

\* "Milk" was submitted again, with another range: refused, Milk as seeded.
C8_Witness ==
    /\ call.fn = "add_product"
    /\ call.name = "Milk"
    /\ call.min_temp = 0
    /\ call.ok = FALSE
    /\ products = default_products

\* C9: the catalog accepts a product only if min_temp <= max_temp, so every
\* Product record satisfies min_temp <= max_temp in every reachable state.
C9_RangesValid ==
    \A i \in 1..Len(products) : products[i].min_temp <= products[i].max_temp

\* C10 (checked under SpecUnit): after update_room(room, current_product_id
\* = p), reading the room gives the product reference p; with p = none it
\* gives no product.
C10_AssignRoundTrip ==
    (call.fn = "update_room" /\ call.room_id \in DOMAIN rooms) =>
        rooms[call.room_id].current_product_id = call.current_product_id

(***************************************************************************)
(* Properties of the control page (checked under SpecControl)              *)
(***************************************************************************)
\* The product row that the room's current_product_id refers to.
AssignedProduct(r) == LeftJoinProduct(products, rooms[r].current_product_id)

\* A step that changed target_temp of room r was "Apply Temperature" by a
\* session with manual_override set, writing the slider's value.
OperatorSetTarget(r) ==
    /\ call'.fn = "apply_temperature"
    /\ call'.room_id = r
    /\ sessions[call'.s].manual_override
    /\ rooms'[r].target_temp = call'.value
    /\ call'.value >= -300 /\ call'.value <= 300

\* A step that changed target_temp of room r was "Apply Recommended
\* Temperature" by a session with manual_override not set, writing what
\* recommend_temperature gives for the room's product and the session's
\* external temperature.
RecommendationSetTarget(r) ==
    /\ call'.fn = "apply_recommended"
    /\ call'.room_id = r
    /\ ~sessions[call'.s].manual_override
    /\ rooms'[r].target_temp =
          recommend_temperature(AssignedProduct(r), sessions[call'.s].weather_data)

\* C11: while manual_override is set no step applies a recommended
\* temperature, and target_temp changes only to a value the operator chose
\* within [-30, 30]; while it is not set, target_temp changes only to the value
\* recommend_temperature returns for the room's assigned product.
C11_OverrideGatesTarget ==
    [][\A r \in DOMAIN rooms :
          rooms'[r].target_temp # rooms[r].target_temp =>
             OperatorSetTarget(r) \/ RecommendationSetTarget(r)]_vars

\* The gating alone: whichever value is written, the slider writes only
\* under manual_override and the recommendation only without it.
C11_GatingAlone ==
    [][\A r \in DOMAIN rooms :
          rooms'[r].target_temp # rooms[r].target_temp =>
             \/ OperatorSetTarget(r)
             \/ /\ call'.fn = "apply_recommended"
                /\ call'.room_id = r
                /\ ~sessions[call'.s].manual_override]_vars

\* C13: with manual override off and product P assigned (P.min_temp <=
\* P.max_temp), the value "Apply Recommended Temperature" writes to
\* target_temp is recommend_temperature(P, external_temp) and lies within
\* [P.min_temp, P.max_temp], also when a bound of P is exactly 0.
C13_AppliedRecommendationInRange ==
    (call.fn = "apply_recommended"
        /\ AssignedProduct(call.room_id).min_temp <= AssignedProduct(call.room_id).max_temp) =>
        LET P == AssignedProduct(call.room_id)
            t == rooms[call.room_id].target_temp
        IN  /\ t = call.value
            /\ t = recommend_temperature(P, sessions[call.s].weather_data)
            /\ P.min_temp <= t
            /\ t <= P.max_temp

(***************************************************************************)
(* Properties of the audit trail and of the sessions (checked under Spec)  *)
(***************************************************************************)
\* The step rewrote a room's reading, target or product, added a product, or
\* approved or rejected a user.
StateChangingStep ==
    \/ rooms' # rooms
    \/ products' # products
    \/ (call'.fn \in {"approve_user", "reject_user"} /\ users' # users)

\* No step removes or rewrites an audit record.
AuditAppendOnly ==
    [][/\ Len(audit_log') >= Len(audit_log)
       /\ SubSeq(audit_log', 1, Len(audit_log)) = audit_log]_vars

\* C12: every state-changing operation (a sensor sample that rewrites a
\* room's reading, setting a target temperature, assigning a product, adding a
\* product, approving or rejecting a user) comes with one audit record for the
\* acting user, and no operation removes or rewrites an audit record.
C12_AuditedAndAppendOnly ==
    [][/\ Len(audit_log') >= Len(audit_log)
       /\ SubSeq(audit_log', 1, Len(audit_log)) = audit_log
       /\ StateChangingStep =>
             /\ Len(audit_log') = Len(audit_log) + 1
             /\ audit_log'[Len(audit_log')].user_id = sessions'[call'.s].user_id]_vars

\* C14: in every reachable state each session's sensor is bound to the
\* session's selected room, so a sample and the alerts of one render concern
\* the same room; a step that changes the selected room samples nothing
\* itself and hands over to the new sensor's sample, which appends exactly one
\* SensorSample, of the newly selected room.
C14_SensorFollowsRoom ==
    /\ [](\A s \in Sessions :
            /\ sessions[s].room_sensor = sessions[s].current_room_id
            /\ (call.fn = "update_sensor_data" /\ call.s = s) =>
                  call.room_id = sessions[s].current_room_id)
    /\ [][\A s \in Sessions :
            /\ sessions'[s].current_room_id # sessions[s].current_room_id =>
                  /\ sensor_data' = sensor_data
                  /\ sessions'[s].pc \in {"switch_sample", "init_sample"}
            /\ (sessions[s].pc = "switch_sample" /\ sessions'[s].pc # "switch_sample") =>
                  /\ sessions'[s].current_room_id = sessions[s].current_room_id
                  /\ Len(sensor_data') = Len(sensor_data) + 1
                  /\ SubSeq(sensor_data', 1, Len(sensor_data)) = sensor_data
                  /\ sensor_data'[Len(sensor_data')].room_id =
                        sessions[s].current_room_id]_vars

\* A session switched to room 2: its sensor is the one of room 2, the newest
\* sample is the one the switch took of room 2, and the switch is logged.
C14_Witness ==
    /\ call.fn = "update_sensor_data"
    /\ call.room_id = 2
    /\ sessions[call.s].current_room_id = 2
    /\ sessions[call.s].room_sensor = 2
    /\ sensor_data[Len(sensor_data)].room_id = 2
    /\ Cardinality(SamplesOf(2)) = 1
    /\ audit_log[Len(audit_log)].action = <<"Switched to room", 2>>

\* The users row of the account a session is logged in with.
SessionUser(s) ==
    LET m == {i \in 1..Len(users.rows) : users.rows[i].id = sessions[s].user_id}
    IN  IF m = {} THEN NoUser ELSE users.rows[CHOOSE i \in m : TRUE]

LoggedInAs(s, roles) == sessions[s].logged_in /\ sessions[s].user_role \in roles

\* The step was a handler run by session s.
ActedBy(s) == call'.fn # "" /\ call'.s = s

\* C15: a logged-in session is one of an approved user with that user's
\* role; a viewer's session shows only the Dashboard; no step changes the
\* manual-override flag or the selected room of a viewer's session; a room's
\* target_temp or product assignment and the product catalog change only in
\* a step run by a logged-in admin or technician session; a users row is
\* approved or removed only in a step run by a logged-in admin session.
C15_RoleGating ==
    /\ [](\A s \in Sessions : sessions[s].logged_in =>
            /\ SessionUser(s) # NoUser
            /\ SessionUser(s).approved # 0
            /\ SessionUser(s).role = sessions[s].user_role
            /\ sessions[s].user_role = "viewer" => sessions[s].page = "Dashboard")
    /\ [][/\ \A s \in Sessions : LoggedInAs(s, {"viewer"}) =>
                /\ sessions'[s].manual_override = sessions[s].manual_override
                /\ sessions'[s].current_room_id = sessions[s].current_room_id
          /\ (\/ products' # products
              \/ \E r \in DOMAIN rooms :
                    \/ rooms'[r].target_temp # rooms[r].target_temp
                    \/ rooms'[r].current_product_id # rooms[r].current_product_id) =>
                \E s \in Sessions : ActedBy(s) /\ LoggedInAs(s, {"admin", "technician"})
          /\ (\/ Len(users'.rows) < Len(users.rows)
              \/ SubSeq(users'.rows, 1, Len(users.rows)) # users.rows) =>
                \E s \in Sessions : ActedBy(s) /\ LoggedInAs(s, {"admin"})]_vars

\* The viewer "view", approved by the admin, is logged in and a render of
\* its Dashboard has just taken a new sample of the room; the session is
\* still on the Dashboard, with the override flag and the room it began with.
C15_Witness ==
    /\ \E s \in Sessions :
          /\ LoggedInAs(s, {"viewer"})
          /\ sessions[s].page = "Dashboard"
          /\ SessionUser(s).username = "view" /\ SessionUser(s).approved = 1
          /\ call.fn = "update_sensor_data" /\ call.s = s
          /\ ~sessions[s].manual_override
          /\ sessions[s].current_room_id = DefaultRoomId
    /\ \E i \in 1..Len(audit_log) :
          audit_log[i] = [user_id |-> 1, action |-> <<"Approved user", 3>>]
    /\ Len(sensor_data) = 5

====
